---- MODULE Spec2Model ----
(***************************************************************************)
(* Business_reporting_tool.py: one linear batch pipeline                   *)
(*   config load -> output dir -> logging -> dataset load -> schema check  *)
(*   -> aggregation -> summary persistence -> daily revenue chart.         *)
(* The process state (pc, exit status, console, table, metrics) and the    *)
(* part of the file system the script touches (output directory, the two   *)
(* dated artifacts, the log lines it appends) are the state.  Amounts are  *)
(* integers; the profit margin is kept as an exact ratio and the reported  *)
(* percentage in hundredths of a percent (66.67 % is 6667).                *)
(***************************************************************************)
EXTENDS Integers, Sequences, FiniteSets

VARIABLES
    pc,             \* the statement block the script is about to run
    exitStatus,     \* process exit status, meaningful once pc = "done"
    fault,          \* which exception (if any) ended or degraded this run
    stages,         \* the pipeline stages that have run, in order
    console,        \* what this process printed (stdout and stderr)
    log,            \* the records this process appended to LOG_FILE
    logOpen,        \* logging.basicConfig has installed the file handler
    outDir,         \* what OUTPUT_DIR names: "absent", "dir" or "file"
    files,          \* artifact name -> content, for the artifacts that exist
    written,        \* artifact names this run opened for writing
    preexisting,    \* artifact names that existed when this run started
    clock,          \* the calendar day
    today,          \* line 80: the day stamp used in both file names
    df,             \* the loaded table
    summary,        \* the SummaryReport data frame
    daily_revenue   \* line 89: the grouped series

vars == <<pc, exitStatus, fault, stages, console, log, logOpen, outDir, files,
          written, preexisting, clock, today, df, summary, daily_revenue>>

----------------------------------------------------------------------------
(* Bounds of the model *)

MaxRows == 2
MaxRerunRows == 1
MaxDay == 2

Days == 1..MaxDay
Dates == {1, 2}
Revenues == {-3, 0, 3}
Costs == {0, 1}

----------------------------------------------------------------------------
(* Tables *)

\* The check with the cost column forgotten.
required_columns_RevenueOnly == <<"revenue">>

required_columns == <<"revenue", "cost">>

ColumnValues(c) ==
    IF c = "date" THEN Dates ELSE IF c = "revenue" THEN Revenues ELSE Costs

\* The rows a file with the given columns can hold.
RowsOver(cols) ==
    {r \in [cols -> Dates \cup Revenues \cup Costs] :
        \A c \in cols : r[c] \in ColumnValues(c)}

TablesOver(cols, n) == UNION {[1..k -> RowsOver(cols)] : k \in 0..n}

\* Scenario A of the specification.
ScenarioA ==
    << [date |-> 1, revenue |-> 100, cost |-> 40],
       [date |-> 1, revenue |-> 50, cost |-> 10],
       [date |-> 2, revenue |-> 0, cost |-> 0] >>

\* What pd.read_csv can return: the date column is always there (parse_dates
\* raises without it), revenue and cost may be missing, and the two columns
\* may hold text instead of numbers (numeric = FALSE; the cells are not kept).
DataFrames(n) ==
    UNION {{[columns |-> {"date"} \cup opt, numeric |-> TRUE, rows |-> t] :
               t \in TablesOver({"date"} \cup opt, n)} :
           opt \in SUBSET {"revenue", "cost"}} \cup
    {[columns |-> {"date", "revenue", "cost"}, numeric |-> FALSE, rows |-> t] :
        t \in TablesOver({"date"}, n)} \cup
    {[columns |-> {"date", "revenue", "cost"}, numeric |-> TRUE, rows |-> ScenarioA]}

NoTable == [columns |-> {}, numeric |-> TRUE, rows |-> <<>>]

----------------------------------------------------------------------------
(* Aggregation (lines 58-76) *)

\* Series.sum(): the column's cells added up in row order.
RECURSIVE ColumnSum(_, _)
ColumnSum(rows, c) ==
    IF Len(rows) = 0 THEN 0 ELSE rows[1][c] + ColumnSum(Tail(rows), c)

\* Profit with the sign of the cost wrong.
RowProfit_Added(r) == r["revenue"] + r["cost"]

\* Line 58: df["profit"] = df["revenue"] - df["cost"], row by row.
RowProfit(r) == r["revenue"] - r["cost"]

WithProfit(rows) ==
    [i \in 1..Len(rows) |->
        [c \in (DOMAIN rows[i]) \cup {"profit"} |->
            IF c = "profit" THEN RowProfit(rows[i]) ELSE rows[i][c]]]

\* The division without its guard.
profit_margin_Unguarded(total_profit, total_revenue) ==
    [num |-> total_profit, den |-> total_revenue]

\* Line 62: the ratio, kept exact as numerator over denominator.
profit_margin(total_profit, total_revenue) ==
    IF total_revenue # 0
    THEN [num |-> total_profit, den |-> total_revenue]
    ELSE [num |-> 0, den |-> 1]

\* Cutting the quotient off instead of rounding it.
RoundDown(n, d) ==
    LET nn == IF d < 0 THEN -n ELSE n
        dd == IF d < 0 THEN -d ELSE d
    IN  nn \div dd

\* n / d rounded to the nearest integer, ties to the even one (round()).
RoundHalfEven(n, d) ==
    LET nn == IF d < 0 THEN -n ELSE n
        dd == IF d < 0 THEN -d ELSE d
        q == nn \div dd
        r == nn - q * dd
    IN  IF 2 * r < dd THEN q
        ELSE IF 2 * r > dd THEN q + 1
        ELSE IF q % 2 = 0 THEN q ELSE q + 1

\* Line 74: round(profit_margin * 100, 2), in hundredths of a percent.
MarginPercent(m) == RoundHalfEven(m.num * 100 * 100, m.den)

\* Lines 63-76: the summary data frame.
Summary(total_revenue, total_cost, total_profit, m) ==
    << [Metric |-> "Total Revenue", Value |-> total_revenue],
       [Metric |-> "Total Cost", Value |-> total_cost],
       [Metric |-> "Total Profit", Value |-> total_profit],
       [Metric |-> "Profit Margin (%)", Value |-> MarginPercent(m)] >>

----------------------------------------------------------------------------
(* Daily revenue (line 89) *)

\* groupby(...)[c].sum(): one pass over the rows, adding each row's cell to
\* the running total of its key.
RECURSIVE GroupSums(_, _, _, _)
GroupSums(rows, key, c, acc) ==
    IF Len(rows) = 0 THEN acc
    ELSE LET k == rows[1][key]
             v == rows[1][c]
             next == IF k \in DOMAIN acc
                     THEN [acc EXCEPT ![k] = @ + v]
                     ELSE [x \in (DOMAIN acc) \cup {k} |->
                              IF x = k THEN v ELSE acc[x]]
         IN  GroupSums(Tail(rows), key, c, next)

\* The group keys in descending order.
RECURSIVE GroupOrder_Descending(_)
GroupOrder_Descending(keys) ==
    IF keys = {} THEN <<>>
    ELSE LET greatest == CHOOSE k \in keys : \A j \in keys : k >= j
         IN  <<greatest>> \o GroupOrder_Descending(keys \ {greatest})

\* groupby sorts the group keys (sort=True is the default).
RECURSIVE GroupOrder(_)
GroupOrder(keys) ==
    IF keys = {} THEN <<>>
    ELSE LET least == CHOOSE k \in keys : \A j \in keys : k <= j
         IN  <<least>> \o GroupOrder(keys \ {least})

GroupBySum(rows, key, c) ==
    LET acc == GroupSums(rows, key, c, <<>>)
        order == GroupOrder(DOMAIN acc)
    IN  [i \in 1..Len(order) |-> [date |-> order[i], revenue |-> acc[order[i]]]]

----------------------------------------------------------------------------
(* Logging, console, exits *)

Entry(level, msg, arg) == [level |-> level, msg |-> msg, arg |-> arg]

\* logging.info / logging.error on the root logger: a record reaches
\* LOG_FILE through the handler basicConfig installed, and never the console.
LogInfo(msg) == log' = Append(log, Entry("INFO", msg, ""))
LogError(msg, arg) == log' = Append(log, Entry("ERROR", msg, arg))

Stdout(msg) == console' = Append(console, msg)

\* sys.exit(1), or an exception nobody catches: the process ends there.
Exit(status, cause) ==
    /\ pc' = "done"
    /\ exitStatus' = status
    /\ fault' = cause

\* An exception outside every try block: the interpreter prints the
\* traceback on stderr and the process ends with status 1.
Uncaught(cause) ==
    /\ Exit(1, cause)
    /\ Stdout("Traceback")

Enter(stage) == stages' = Append(stages, stage)

summary_file == <<"summary", today>>
plot_file == <<"daily_revenue", today>>

\* A write that appends to what the file already holds.
WriteFile_Append(name, content) ==
    /\ files' = [n \in (DOMAIN files) \cup {name} |->
                    IF n # name THEN files[n]
                    ELSE IF name \in DOMAIN files THEN files[name] \o content
                    ELSE content]
    /\ written' = written \cup {name}

\* Opening a path for writing truncates it: whatever was there is gone and
\* the file holds what this write put there.
WriteFile(name, content) ==
    /\ files' = [n \in (DOMAIN files) \cup {name} |->
                    IF n = name THEN content ELSE files[n]]
    /\ written' = written \cup {name}

\* Path.mkdir(parents=True, exist_ok=True): creates a missing directory,
\* accepts an existing one, raises FileExistsError on a non-directory.
MkdirRaises(state) == state = "file"

----------------------------------------------------------------------------
(* The script, block by block *)

Init ==
    /\ pc = "config"
    /\ exitStatus = 0
    /\ fault = "none"
    /\ stages = <<>>
    /\ console = <<>>
    /\ log = <<>>
    /\ logOpen = FALSE
    /\ outDir \in {"absent", "dir", "file"}
    /\ files = <<>>
    /\ written = {}
    /\ preexisting = {}
    /\ clock \in Days
    /\ today = 0
    /\ df = NoTable
    /\ summary = <<>>
    /\ daily_revenue = <<>>

\* Lines 19-21.
ConfigNotFound ==
    /\ Stdout("Configuration file 'config.json' not found.")
    /\ Exit(1, "config_missing")

\* The parse error reported, and the script going on with its defaults.
ConfigDecodeError_GoesOn ==
    /\ Stdout("Error parsing config file")
    /\ pc' = "mkdir"
    /\ fault' = "config_malformed"
    /\ UNCHANGED exitStatus

\* Lines 22-24.
ConfigDecodeError ==
    /\ Stdout("Error parsing config file")
    /\ Exit(1, "config_malformed")

\* Lines 16-31.  JSON that is not an object loads, and config.get raises.
LoadConfig ==
    /\ pc = "config"
    /\ Enter("config")
    /\ \/ /\ pc' = "mkdir"
          /\ UNCHANGED <<exitStatus, fault, console>>
       \/ ConfigNotFound
       \/ ConfigDecodeError
       \/ Uncaught("config_not_mapping")
    /\ UNCHANGED <<log, logOpen, outDir, files, written, preexisting, clock,
                   today, df, summary, daily_revenue>>

\* Line 32.
MakeOutputDir ==
    /\ pc = "mkdir"
    /\ IF MkdirRaises(outDir)
       THEN /\ Uncaught("output_dir")
            /\ UNCHANGED outDir
       ELSE /\ outDir' = "dir"
            /\ pc' = "logging"
            /\ UNCHANGED <<exitStatus, fault, console>>
    /\ UNCHANGED <<stages, log, logOpen, files, written, preexisting, clock,
                   today, df, summary, daily_revenue>>

\* Lines 33-39: basicConfig opens LOG_FILE for appending at once.
ConfigureLogging ==
    /\ pc = "logging"
    /\ \/ /\ logOpen' = TRUE
          /\ LogInfo("Script started")
          /\ pc' = "load"
          /\ UNCHANGED <<exitStatus, fault, console>>
       \/ /\ Uncaught("log_open")
          /\ UNCHANGED <<log, logOpen>>
    /\ UNCHANGED <<stages, outDir, files, written, preexisting, clock, today,
                   df, summary, daily_revenue>>

\* The missing file logged, and the process ending with status 0.
DataFileNotFound_ExitZero ==
    /\ LogError("Data file not found.", "")
    /\ Exit(0, "data_missing")

\* Lines 43-45.
DataFileNotFound ==
    /\ LogError("Data file not found.", "")
    /\ Exit(1, "data_missing")

\* Lines 40-51.
LoadDataset(n) ==
    /\ pc = "load"
    /\ Enter("load")
    /\ \/ \E t \in DataFrames(n) :
             /\ df' = t
             /\ LogInfo("Loaded data successfully.")
             /\ pc' = "validate"
             /\ UNCHANGED <<exitStatus, fault>>
       \/ /\ DataFileNotFound
          /\ UNCHANGED df
       \/ /\ LogError("Error parsing CSV file", "")
          /\ Exit(1, "data_parse")
          /\ UNCHANGED df
       \/ /\ LogError("Unexpected error loading data", "")
          /\ Exit(1, "data_other")
          /\ UNCHANGED df
    /\ UNCHANGED <<console, logOpen, outDir, files, written, preexisting,
                   clock, today, summary, daily_revenue>>

\* Lines 52-56: the first required column that is missing, if any.
FirstMissing(columns) ==
    LET missing == {i \in 1..Len(required_columns) :
                       required_columns[i] \notin columns}
    IN  IF missing = {} THEN ""
        ELSE required_columns[CHOOSE i \in missing : \A j \in missing : i <= j]

ValidateSchema ==
    /\ pc = "validate"
    /\ Enter("validate")
    /\ IF FirstMissing(df.columns) # ""
       THEN /\ LogError("Missing required column", FirstMissing(df.columns))
            /\ Exit(1, "missing_column")
       ELSE /\ pc' = "aggregate"
            /\ UNCHANGED <<exitStatus, fault, log>>
    /\ UNCHANGED <<console, logOpen, outDir, files, written, preexisting,
                   clock, today, df, summary, daily_revenue>>

\* The error logged, and the process ending with status 0.
MetricsFailed_ExitZero(cause) ==
    /\ LogError("Error calculating metrics", "")
    /\ Exit(0, cause)

\* Lines 85-87.
MetricsFailed(cause) ==
    /\ LogError("Error calculating metrics", "")
    /\ Exit(1, cause)

\* Lines 57-79.  Arithmetic on text cells, a column that is not there and a
\* division by zero all raise inside the try block.
Aggregate ==
    /\ pc = "aggregate"
    /\ Enter("aggregate")
    /\ LET rows == WithProfit(df.rows)
           total_revenue == ColumnSum(rows, "revenue")
           total_cost == ColumnSum(rows, "cost")
           total_profit == ColumnSum(rows, "profit")
           m == profit_margin(total_profit, total_revenue)
       IN  IF \/ ~df.numeric
              \/ ~({"revenue", "cost"} \subseteq df.columns)
              \/ m.den = 0
           THEN /\ MetricsFailed("aggregation")
                /\ UNCHANGED <<df, summary, console>>
           ELSE /\ df' = [df EXCEPT !.columns = @ \cup {"profit"},
                                    !.rows = rows]
                /\ summary' = Summary(total_revenue, total_cost, total_profit, m)
                /\ Stdout("BUSINESS PERFORMANCE SUMMARY")
                /\ LogInfo("Metrics calculated and summary printed successfully.")
                /\ pc' = "persist"
                /\ UNCHANGED <<exitStatus, fault>>
    /\ UNCHANGED <<logOpen, outDir, files, written, preexisting, clock, today,
                   daily_revenue>>

\* Lines 80-84.  A to_csv that raises does
\* so before it opens the file, or after it has opened (and emptied) it.
PersistSummary ==
    /\ pc = "persist"
    /\ Enter("persist")
    /\ today' = clock
    /\ \/ /\ WriteFile(summary_file', summary)
          /\ LogInfo("Summary saved")
          /\ Stdout("Summary saved to")
          /\ pc' = "group"
          /\ UNCHANGED <<exitStatus, fault>>
       \/ /\ MetricsFailed("persist")
          /\ UNCHANGED <<files, written, console>>
       \/ /\ WriteFile(summary_file', <<>>)
          /\ MetricsFailed("persist")
          /\ UNCHANGED console
    /\ UNCHANGED <<logOpen, outDir, preexisting, clock, df, summary,
                   daily_revenue>>

\* The chart handler ending the process like the other handlers do.
ChartFailed_Exits ==
    /\ LogError("Error plotting daily revenue", "")
    /\ Exit(1, "chart")

\* Lines 102-103: the chart stage's handler.  The script then runs off its
\* end, which is exit status 0.
ChartFailed ==
    /\ LogError("Error plotting daily revenue", "")
    /\ Exit(0, "chart")

\* Line 89.
GroupDaily ==
    /\ pc = "group"
    /\ Enter("chart")
    /\ \/ /\ daily_revenue' = GroupBySum(df.rows, "date", "revenue")
          /\ pc' = "render"
          /\ UNCHANGED <<exitStatus, fault, log>>
       \/ /\ ChartFailed
          /\ UNCHANGED daily_revenue
    /\ UNCHANGED <<console, logOpen, outDir, files, written, preexisting,
                   clock, today, df, summary>>

\* Lines 90-96.
RenderChart ==
    /\ pc = "render"
    /\ \/ /\ pc' = "save"
          /\ UNCHANGED <<exitStatus, fault, log>>
       \/ ChartFailed
    /\ UNCHANGED <<stages, console, logOpen, outDir, files, written,
                   preexisting, clock, today, df, summary, daily_revenue>>

\* Lines 97-98.
SaveChart ==
    /\ pc = "save"
    /\ \/ /\ WriteFile(plot_file, daily_revenue)
          /\ pc' = "show"
          /\ UNCHANGED <<exitStatus, fault, log>>
       \/ /\ ChartFailed
          /\ UNCHANGED <<files, written>>
       \/ /\ WriteFile(plot_file, <<>>)
          /\ ChartFailed
    /\ UNCHANGED <<stages, console, logOpen, outDir, preexisting, clock, today,
                   df, summary, daily_revenue>>

\* Lines 99-101, then the end of the script.
ShowChart ==
    /\ pc = "show"
    /\ \/ /\ LogInfo("Daily revenue plot saved")
          /\ Stdout("Plot saved to")
          /\ Exit(0, "none")
       \/ /\ ChartFailed
          /\ UNCHANGED console
    /\ UNCHANGED <<stages, logOpen, outDir, files, written, preexisting, clock,
                   today, df, summary, daily_revenue>>

\* The program is started again on the same calendar day: a new process,
\* the same file system.
Rerun ==
    /\ pc = "done"
    /\ pc' = "config"
    /\ exitStatus' = 0
    /\ fault' = "none"
    /\ stages' = <<>>
    /\ console' = <<>>
    /\ log' = <<>>
    /\ logOpen' = FALSE
    /\ written' = {}
    /\ preexisting' = DOMAIN files
    /\ today' = 0
    /\ df' = NoTable
    /\ summary' = <<>>
    /\ daily_revenue' = <<>>
    /\ UNCHANGED <<outDir, files, clock>>

Next ==
    \/ LoadConfig
    \/ MakeOutputDir
    \/ ConfigureLogging
    \/ LoadDataset(MaxRows)
    \/ ValidateSchema
    \/ Aggregate
    \/ PersistSummary
    \/ GroupDaily
    \/ RenderChart
    \/ SaveChart
    \/ ShowChart

Spec == Init /\ [][Next]_vars

NextRerun ==
    \/ LoadConfig
    \/ MakeOutputDir
    \/ ConfigureLogging
    \/ LoadDataset(MaxRerunRows)
    \/ ValidateSchema
    \/ Aggregate
    \/ PersistSummary
    \/ GroupDaily
    \/ RenderChart
    \/ SaveChart
    \/ ShowChart
    \/ Rerun

SpecRerun == Init /\ [][NextRerun]_vars

----------------------------------------------------------------------------
(* Vocabulary of the properties *)

Done == pc = "done"

Ran(stage) == \E i \in 1..Len(stages) : stages[i] = stage

Logged(level, msg) ==
    \E i \in 1..Len(log) : log[i].level = level /\ log[i].msg = msg

ConfigFaults == {"config_missing", "config_malformed", "config_not_mapping"}
SetupFaults == {"output_dir", "log_open"}
LoadFaults == {"data_missing", "data_parse", "data_other"}
FatalStageFaults == LoadFaults \cup {"missing_column", "aggregation", "persist"}

StageOrder == <<"config", "load", "validate", "aggregate", "persist", "chart">>

StageOf(cause) ==
    IF cause \in ConfigFaults THEN "config"
    ELSE IF cause \in LoadFaults THEN "load"
    ELSE IF cause = "missing_column" THEN "validate"
    ELSE IF cause = "aggregation" THEN "aggregate"
    ELSE cause

Abs(x) == IF x < 0 THEN -x ELSE x

\* The sum of one column over a set of row numbers.
RECURSIVE SumOver(_, _, _)
SumOver(rows, c, idx) ==
    IF idx = {} THEN 0
    ELSE LET i == CHOOSE j \in idx : TRUE
         IN  rows[i][c] + SumOver(rows, c, idx \ {i})

Validated ==
    /\ Ran("aggregate")
    /\ df.numeric
    /\ {"revenue", "cost"} \subseteq df.columns

----------------------------------------------------------------------------
(* C1: a loaded table without the revenue or the cost column: once the     *)
(* schema check has run, the log holds an error naming a column that is    *)
(* missing, the run has ended with a non-zero status, no aggregation has   *)
(* run and this run has written neither the summary nor the chart.         *)
C1_MissingColumnIsFatal ==
    (Ran("validate") /\ ~({"revenue", "cost"} \subseteq df.columns)) =>
        /\ Done
        /\ exitStatus # 0
        /\ \E i \in 1..Len(log) :
              /\ log[i].level = "ERROR"
              /\ log[i].msg = "Missing required column"
              /\ log[i].arg \in {"revenue", "cost"} \ df.columns
        /\ ~Ran("aggregate")
        /\ summary = <<>>
        /\ "profit" \notin df.columns
        /\ written = {}
        /\ DOMAIN files = preexisting

C1_Witness ==
    /\ Done
    /\ Ran("validate")
    /\ df.columns = {"date", "revenue"}
    /\ Len(df.rows) > 0
    /\ log[Len(log)].arg = "cost"

----------------------------------------------------------------------------
(* C2: the data file does not exist: the run has ended with a non-zero     *)
(* status, the log holds the file-not-found error, and this run has        *)
(* created no file in the output directory.                                *)
C2_MissingDataFile ==
    fault = "data_missing" =>
        /\ Done
        /\ exitStatus # 0
        /\ Logged("ERROR", "Data file not found.")
        /\ written = {}
        /\ DOMAIN files = preexisting
        /\ stages = <<"config", "load">>

C2_Witness ==
    /\ fault = "data_missing"
    /\ Done
    /\ outDir = "dir"
    /\ log[Len(log)] = Entry("ERROR", "Data file not found.", "")

----------------------------------------------------------------------------
(* C3: a failure anywhere in the chart stage is logged, the run ends with  *)
(* status 0, the summary file written by this run is still there with the  *)
(* content the run gave it, and the console shows nothing but the two      *)
(* messages of the summary stage.                                          *)
C3_ChartFailureIsolated ==
    fault = "chart" =>
        /\ Done
        /\ exitStatus = 0
        /\ log[Len(log)] = Entry("ERROR", "Error plotting daily revenue", "")
        /\ summary_file \in DOMAIN files
        /\ files[summary_file] = summary
        /\ console = <<"BUSINESS PERFORMANCE SUMMARY", "Summary saved to">>

C3_Witness ==
    /\ fault = "chart"
    /\ Done
    /\ plot_file \in written
    /\ Len(df.rows) > 0

----------------------------------------------------------------------------
(* C4, as claimed: the stages run in the order config, load, validate,     *)
(* aggregate, persist, chart; a failure of load, validate, aggregate or    *)
(* persist ends the run with a non-zero status and nothing after it runs;  *)
(* and the exit status is 0 exactly when none of config load, dataset      *)
(* load, schema validation and aggregation/persistence failed.             *)
C4_StagesInOrder ==
    \E n \in 0..Len(StageOrder) : stages = SubSeq(StageOrder, 1, n)

C4_FatalStops ==
    fault \in FatalStageFaults =>
        /\ Done
        /\ exitStatus # 0
        /\ stages[Len(stages)] = StageOf(fault)

C4_AsClaimed ==
    /\ C4_StagesInOrder
    /\ C4_FatalStops
    /\ Done => (exitStatus = 0 <=> fault \notin ConfigFaults \cup FatalStageFaults)

(* C4, amended: as above, with the exit status 0 exactly when none of      *)
(* config load, output directory creation, logging setup, dataset load,    *)
(* schema validation and aggregation/persistence failed.                   *)
C4_ExitStatus ==
    /\ C4_StagesInOrder
    /\ C4_FatalStops
    /\ Done => (exitStatus = 0 <=>
                   fault \notin ConfigFaults \cup SetupFaults \cup FatalStageFaults)

C4_Witness ==
    /\ Done
    /\ fault = "persist"
    /\ exitStatus = 1
    /\ stages = SubSeq(StageOrder, 1, 5)

----------------------------------------------------------------------------
(* C5: a configuration that cannot be loaded: the step that finds it out   *)
(* prints to the console, ends the process with a non-zero status and      *)
(* changes nothing else: logging is not configured, the log gets no        *)
(* record, the output directory is not created, no file is written, no     *)
(* table is loaded and nothing is aggregated.                              *)
C5_ConfigFailureStep ==
    (pc = "config" /\ fault' \in ConfigFaults) =>
        /\ pc' = "done"
        /\ exitStatus' # 0
        /\ Len(console') = Len(console) + 1
        /\ logOpen' = FALSE
        /\ log' = <<>>
        /\ stages' = <<"config">>
        /\ UNCHANGED <<outDir, files, written, df, summary, daily_revenue>>

C5_ConfigFailure == [][C5_ConfigFailureStep]_vars

C5_Witness ==
    /\ fault = "config_malformed"
    /\ Done
    /\ outDir = "absent"

----------------------------------------------------------------------------
(* C6: a validated table whose revenue adds up to zero: the aggregation    *)
(* raises nothing, the reported profit margin is 0 whatever the cost and   *)
(* the profit are, and unless the write itself fails the summary file is   *)
(* written and the run goes on to the chart stage.                         *)
C6_ZeroRevenue ==
    (Validated /\ SumOver(df.rows, "revenue", DOMAIN df.rows) = 0) =>
        /\ fault # "aggregation"
        /\ Len(summary) = 4
        /\ summary[4].Value = 0
        /\ (pc # "persist" /\ fault # "persist") =>
              /\ summary_file \in written
              /\ files[summary_file] = summary
              /\ pc \in {"group", "render", "save", "show", "done"}
              /\ pc = "group" \/ Ran("chart")

C6_Witness ==
    /\ Validated
    /\ Done
    /\ fault = "none"
    /\ Len(df.rows) = 2
    /\ df.rows[1]["revenue"] # 0
    /\ summary[1].Value = 0
    /\ summary[3].Value # 0
    /\ plot_file \in written

----------------------------------------------------------------------------
(* C7: with a total revenue other than zero the reported 'Profit Margin    *)
(* (%)' is total_profit / total_revenue * 100 rounded to two decimals:     *)
(* no other multiple of 0.01 is nearer to the quotient.  Scenario A gives  *)
(* 150, 50, 100 and 66.67.                                                 *)
C7_MarginRounded ==
    (Len(summary) = 4 /\ summary[1].Value # 0) =>
        /\ summary[4].Metric = "Profit Margin (%)"
        /\ 2 * Abs(100 * 100 * summary[3].Value - summary[4].Value * summary[1].Value)
              <= Abs(summary[1].Value)
        /\ (/\ Len(df.rows) = Len(ScenarioA)
            /\ \A i \in 1..3 : df.rows[i]["date"] = ScenarioA[i]["date"]
                             /\ df.rows[i]["revenue"] = ScenarioA[i]["revenue"]
                             /\ df.rows[i]["cost"] = ScenarioA[i]["cost"])
              => /\ summary[1].Value = 150
                 /\ summary[2].Value = 50
                 /\ summary[3].Value = 100
                 /\ summary[4].Value = 6667

C7_Witness ==
    /\ Len(summary) = 4
    /\ summary[1].Value = 150
    /\ summary[4].Value = 6667
    /\ Done

----------------------------------------------------------------------------
----------------------------------------------------------------------------
(* C9: the daily revenue series has one entry for each date of the table   *)
(* and for no other date, each entry holds the revenue added up over the   *)
(* rows of its date, and the entries are in ascending date order.          *)
Grouped == pc \in {"render", "save", "show"} \/ (Done /\ fault = "none")

C9_DailyRevenueSeries ==
    Grouped =>
        LET s == daily_revenue
            rows == df.rows
        IN  /\ {s[i].date : i \in DOMAIN s} = {rows[j]["date"] : j \in DOMAIN rows}
            /\ \A i, k \in DOMAIN s : i < k => s[i].date < s[k].date
            /\ \A i \in DOMAIN s :
                  s[i].revenue =
                      SumOver(rows, "revenue",
                              {j \in DOMAIN rows : rows[j]["date"] = s[i].date})

C9_Witness ==
    /\ Grouped
    /\ Len(df.rows) = 2
    /\ df.rows[1]["date"] > df.rows[2]["date"]
    /\ Len(daily_revenue) = 2
    /\ daily_revenue[1].revenue # daily_revenue[2].revenue

----------------------------------------------------------------------------
(* C10: a run that finds the output directory and today's two files left   *)
(* by an earlier run of the same day: creating the directory does not      *)
(* fail, no file under another name appears, and each file the run writes  *)
(* holds what this run wrote and nothing of what was there before.         *)
C10_RerunOverwrites ==
    /\ fault = "output_dir" => outDir = "file"
    /\ preexisting \subseteq DOMAIN files
    /\ DOMAIN files \subseteq {<<"summary", clock>>, <<"daily_revenue", clock>>}
    /\ (pc \in {"group", "render", "save", "show"} \/ (Done /\ fault \in {"none", "chart"}))
          => files[summary_file] = summary
    /\ (pc = "show" \/ (Done /\ fault = "none"))
          => files[plot_file] = daily_revenue

C10_Witness ==
    /\ preexisting = {<<"summary", clock>>, <<"daily_revenue", clock>>}
    /\ Done
    /\ fault = "none"
    /\ exitStatus = 0
    /\ written = preexisting
    /\ Len(df.rows) > 0

====
